---- MODULE Spec2Model ----
(***************************************************************************)
(* Meeting-notes manager: the use-case layer (internal/usecase) on top of  *)
(* the GORM repository (internal/repository) and the notes table.          *)
(*                                                                         *)
(* Strings are sequences of one-character strings.  Timestamps are         *)
(* naturals; ZeroTime is Go's zero time.Time and also stands for an        *)
(* invalid (NULL) gorm.DeletedAt.                                          *)
(***************************************************************************)
EXTENDS Integers, Sequences, FiniteSets, TLC

VARIABLES rows, seq, now, last, reqs

vars == <<rows, seq, now, last, reqs>>

----------------------------------------------------------------------------
(* Bounds of the model *)

\* the clock stops here: every write that reaches the table takes one tick
MaxClock == 4
\* largest number of rows of a table that a query specification starts from
MaxRows == 3

----------------------------------------------------------------------------
(* Values *)

\* time.Time{}; also a gorm.DeletedAt that is not Valid (NULL)
ZeroTime == 0
\* a nil *time.Time in a NoteFilter
NilDate == -1

\* meeting dates that callers use
Dates == {1, 2, 3}
\* identifiers that callers ask for; 0 is the unset identifier
IDs == {0, 1, 2, 3}

\* title, content, category and meeting date of the notes callers send:
\* three that pass validation (one of them whitespace only) and three that do not
ValidPayloads ==
    { [Title |-> <<"A", "b">>, Content |-> <<"c">>, Category |-> <<"x">>, MeetingDate |-> 2],
      [Title |-> <<" ">>, Content |-> <<" ">>, Category |-> <<>>, MeetingDate |-> 1],
      [Title |-> <<"b">>, Content |-> <<"c">>, Category |-> <<"X">>, MeetingDate |-> 3] }

InvalidPayloads ==
    { [Title |-> <<>>, Content |-> <<"c">>, Category |-> <<"x">>, MeetingDate |-> 3],
      [Title |-> <<"A", "b">>, Content |-> <<>>, Category |-> <<>>, MeetingDate |-> 3],
      [Title |-> <<>>, Content |-> <<>>, Category |-> <<"x">>, MeetingDate |-> 1] }

Payloads == ValidPayloads \cup InvalidPayloads

\* a note as the JSON binding or a caller builds it: the payload plus whatever
\* the caller put in the identifier and the soft-deletion marker
MakeNote(p, id, deletedAt) ==
    [ID |-> id, Title |-> p.Title, Content |-> p.Content, Category |-> p.Category,
     MeetingDate |-> p.MeetingDate, CreatedAt |-> ZeroTime, UpdatedAt |-> ZeroTime,
     DeletedAt |-> deletedAt]

\* notes handed to CreateNote: identifier unset or preset, marker unset or set
CreateInputs ==
    {MakeNote(p, id, d) : p \in Payloads, id \in {0, 2}, d \in {ZeroTime, 1}}

\* notes handed to UpdateNote
UpdateInputs ==
    {MakeNote(p, id, d) : p \in Payloads, id \in IDs, d \in {ZeroTime, 1}}

\* keywords: none, blank, plain, padded with spaces, and the LIKE wildcard
Keywords == {<<>>, <<" ">>, <<"a">>, <<" ", "B", " ">>, <<"c">>, <<"_">>}
\* categories in a filter: none, plain, padded with a space, other case
FilterCategories == {<<>>, <<"x">>, <<" ", "x">>, <<"X">>}
FilterDates == {NilDate, 1, 2, 3}

NoteFilters ==
    [Keyword : Keywords, Category : FilterCategories,
     FromDate : FilterDates, ToDate : FilterDates]

\* the filters and keywords tried between the writes of a note's life
SomeKeywords == {<<" ">>, <<"a">>, <<"_">>}
SomeFilters ==
    [Keyword : {<<>>, <<"c">>}, Category : {<<>>, <<"x">>},
     FromDate : {NilDate, 2}, ToDate : {NilDate, 1}]

\* limits and offsets of a page
Limits == {0, 1, 2}
Offsets == {0, 1}

\* domain.Note{}
EmptyNote ==
    [ID |-> 0, Title |-> <<>>, Content |-> <<>>, Category |-> <<>>,
     MeetingDate |-> ZeroTime, CreatedAt |-> ZeroTime, UpdatedAt |-> ZeroTime,
     DeletedAt |-> ZeroTime]

EmptyFilter ==
    [Keyword |-> <<>>, Category |-> <<>>, FromDate |-> NilDate, ToDate |-> NilDate]

\* use-case errors
ErrEmptyTitle == "note title cannot be empty"
ErrEmptyContent == "note content cannot be empty"
ErrNoteNotFound == "note not found"
ErrCreateFailed == "failed to create note"
ErrGetFailed == "failed to get notes"
ErrRetrieveFailed == "failed to retrieve note"
ErrUpdateFailed == "failed to update note"
ErrDeleteFailed == "failed to delete note"
ErrEmptyKeyword == "search keyword cannot be empty"
ErrSearchFailed == "failed to find notes"
ErrInvalidDateRange == "fromDate must be before toDate"
ErrFilterFailed == "failed to filter notes"

\* repository errors
ErrRecordNotFound == "record not found"
ErrDB == "db error"
ErrDuplicateKey == "duplicate key"
Nil == "nil"

----------------------------------------------------------------------------
(* Strings *)

ToLowerChar(c) ==
    CASE c = "A" -> "a"
      [] c = "B" -> "b"
      [] c = "C" -> "c"
      [] c = "X" -> "x"
      [] OTHER -> c

ToLower(s) == [i \in 1..Len(s) |-> ToLowerChar(s[i])]

IsSpace(c) == c = " "

RECURSIVE TrimLeft(_)
TrimLeft(s) ==
    IF s # <<>> /\ IsSpace(Head(s)) THEN TrimLeft(Tail(s)) ELSE s

RECURSIVE TrimRight(_)
TrimRight(s) ==
    IF s # <<>> /\ IsSpace(s[Len(s)]) THEN TrimRight(SubSeq(s, 1, Len(s) - 1)) ELSE s

\* strings.TrimSpace
TrimSpace(s) == TrimRight(TrimLeft(s))

\* strings.Contains
Contains(s, sub) ==
    \E i \in 0..(Len(s) - Len(sub)) : SubSeq(s, i + 1, i + Len(sub)) = sub

\* SQL LIKE: "%" matches any run of characters, "_" any one character
RECURSIVE LikeMatch(_, _)
LikeMatch(s, p) ==
    IF p = <<>> THEN s = <<>>
    ELSE IF Head(p) = "%"
         THEN LikeMatch(s, Tail(p)) \/ (s # <<>> /\ LikeMatch(Tail(s), p))
    ELSE IF Head(p) = "_"
         THEN s # <<>> /\ LikeMatch(Tail(s), Tail(p))
    ELSE s # <<>> /\ Head(s) = Head(p) /\ LikeMatch(Tail(s), Tail(p))

\* PostgreSQL ILIKE
ILike(s, p) == LikeMatch(ToLower(s), ToLower(p))

\* title ILIKE ? OR content ILIKE ?  with  "%" + keyword + "%"
KeywordClause(r, keyword) ==
    LET like == <<"%">> \o keyword \o <<"%">>
    IN  ILike(r.Title, like) \/ ILike(r.Content, like)

----------------------------------------------------------------------------
(* Sequences *)

Range(s) == {s[i] : i \in 1..Len(s)}

\* time.Time.After
After(t, u) == t > u

\* a less function that uses Before
Less_Before(a, b) == a.MeetingDate < b.MeetingDate

\* the less function every list operation hands to sort.Slice
Less(a, b) == After(a.MeetingDate, b.MeetingDate)

\* one pass of the inner loop of insertion sort: sink s[j] while it is less
\* than its left neighbour
RECURSIVE Sink(_, _)
Sink(s, j) ==
    IF j > 1 /\ Less(s[j], s[j - 1])
    THEN Sink([s EXCEPT ![j] = s[j - 1], ![j - 1] = s[j]], j - 1)
    ELSE s

RECURSIVE InsertionSort(_, _)
InsertionSort(s, i) ==
    IF i > Len(s) THEN s ELSE InsertionSort(Sink(s, i), i + 1)

\* sort.Slice on a slice of fewer than 12 elements is an insertion sort
SortSlice(s) == InsertionSort(s, 2)

----------------------------------------------------------------------------
(* The notes table behind GORM *)

\* gorm.DeletedAt adds "deleted_at IS NULL" to every query, update and delete
Visible(r) == r.DeletedAt = ZeroTime

HasID(rs, id) == \E i \in 1..Len(rs) : rs[i].ID = id

\* index of the row with identifier id that is not soft-deleted, 0 when none
VisibleIndex(rs, id) ==
    IF \E i \in 1..Len(rs) : rs[i].ID = id /\ Visible(rs[i])
    THEN CHOOSE i \in 1..Len(rs) : rs[i].ID = id /\ Visible(rs[i])
    ELSE 0

\* autoCreateTime and autoUpdateTime fill a zero timestamp with the current time
Stamp(n, t) ==
    [n EXCEPT !.CreatedAt = IF @ = ZeroTime THEN t ELSE @,
              !.UpdatedAt = IF @ = ZeroTime THEN t ELSE @]

\* DB.Create on a table whose primary key is not checked
RepoCreate_NoPrimaryKey(rs, sq, t, n, fail) ==
    LET id == IF n.ID = 0 THEN sq ELSE n.ID
        sq2 == IF n.ID = 0 THEN sq + 1 ELSE sq
        row == [Stamp(n, t) EXCEPT !.ID = id]
    IN  IF fail THEN [rows |-> rs, seq |-> sq, n |-> Stamp(n, t), err |-> ErrDB]
        ELSE [rows |-> Append(rs, row), seq |-> sq2, n |-> row, err |-> Nil]

\* DB.Create(n): INSERT; an unset primary key is taken from the table's sequence,
\* a preset one is inserted as it is and must not be taken already
RepoCreate(rs, sq, t, n, fail) ==
    LET id == IF n.ID = 0 THEN sq ELSE n.ID
        sq2 == IF n.ID = 0 THEN sq + 1 ELSE sq
        row == [Stamp(n, t) EXCEPT !.ID = id]
    IN  IF fail THEN [rows |-> rs, seq |-> sq, n |-> Stamp(n, t), err |-> ErrDB]
        ELSE IF HasID(rs, id)
             THEN [rows |-> rs, seq |-> sq2, n |-> Stamp(n, t), err |-> ErrDuplicateKey]
             ELSE [rows |-> Append(rs, row), seq |-> sq2, n |-> row, err |-> Nil]

\* DB.Unscoped().Find(&notes)
RepoFind_Unscoped(rs) == rs

\* DB.Find(&notes): the rows that are not soft-deleted, in table order
RepoFind(rs) == SelectSeq(rs, Visible)

RepoGetAll(rs, fail) ==
    IF fail THEN [notes |-> <<>>, err |-> ErrDB]
    ELSE [notes |-> RepoFind(rs), err |-> Nil]

\* DB.First(&note, id)
RepoGetByID(rs, id, fail) ==
    LET i == VisibleIndex(rs, id)
    IN  IF fail THEN [note |-> EmptyNote, err |-> ErrDB]
        ELSE IF i = 0 THEN [note |-> EmptyNote, err |-> ErrRecordNotFound]
        ELSE [note |-> rs[i], err |-> Nil]

\* the table after row i got the new version r: the new version stays in place
\* or, when moved, becomes the last row of the table
ReplaceRow(rs, i, r, moved) ==
    IF moved
    THEN Append(SubSeq(rs, 1, i - 1) \o SubSeq(rs, i + 1, Len(rs)), r)
    ELSE [rs EXCEPT ![i] = r]

\* DB.Save(n): UPDATE of every column of the row with n's identifier that is not
\* soft-deleted, updated_at set to the current time.  When no row was updated,
\* a GORM that upserts runs INSERT ... ON CONFLICT (id) DO UPDATE of every column
\* but created_at; an older one leaves the table alone.
RepoUpdate(rs, sq, t, n, fail, moved, upsert) ==
    LET i == VisibleIndex(rs, n.ID)
        r == [n EXCEPT !.UpdatedAt = t]
        j == CHOOSE k \in 1..Len(rs) : rs[k].ID = n.ID
    IN  IF fail THEN [rows |-> rs, seq |-> sq, err |-> ErrDB]
        ELSE IF n.ID = 0
             THEN [rows |-> RepoCreate(rs, sq, t, n, FALSE).rows,
                   seq |-> RepoCreate(rs, sq, t, n, FALSE).seq,
                   err |-> RepoCreate(rs, sq, t, n, FALSE).err]
        ELSE IF i # 0
             THEN [rows |-> ReplaceRow(rs, i, r, moved), seq |-> sq, err |-> Nil]
        ELSE IF ~upsert
             THEN [rows |-> rs, seq |-> sq, err |-> Nil]
        ELSE IF HasID(rs, n.ID)
             THEN [rows |-> ReplaceRow(rs, j, [r EXCEPT !.CreatedAt = rs[j].CreatedAt], moved),
                   seq |-> sq, err |-> Nil]
        ELSE [rows |-> Append(rs, Stamp(r, t)), seq |-> sq, err |-> Nil]

\* DB.Unscoped().Delete(&domain.Note{}, id): DELETE FROM notes WHERE id = ?
RepoDelete_Purge(rs, t, id, fail) ==
    LET Others(r) == r.ID # id
    IN  IF fail THEN [rows |-> rs, err |-> ErrDB]
        ELSE [rows |-> SelectSeq(rs, Others), err |-> Nil]

\* a delete that also clears the category of the row
RepoDelete_Touch(rs, t, id, fail) ==
    LET i == VisibleIndex(rs, id)
    IN  IF fail THEN [rows |-> rs, err |-> ErrDB]
        ELSE IF i = 0 THEN [rows |-> rs, err |-> Nil]
        ELSE [rows |-> [rs EXCEPT ![i].DeletedAt = t, ![i].Category = <<>>],
              err |-> Nil]

\* DB.Delete(&domain.Note{}, id): UPDATE notes SET deleted_at = now
\* WHERE id = ? AND deleted_at IS NULL
RepoDelete(rs, t, id, fail) ==
    LET i == VisibleIndex(rs, id)
    IN  IF fail THEN [rows |-> rs, err |-> ErrDB]
        ELSE IF i = 0 THEN [rows |-> rs, err |-> Nil]
        ELSE [rows |-> [rs EXCEPT ![i].DeletedAt = t], err |-> Nil]

\* DB.Limit(limit).Offset(offset).Find(&notes).  A zero or negative offset adds
\* no OFFSET; a negative limit adds no LIMIT; a zero limit is LIMIT 0 in a GORM
\* that keeps the limit as a pointer and no LIMIT at all in an older one.
Window(s, limit, offset, zeroIsNoLimit) ==
    LET from == IF offset > 0 THEN offset + 1 ELSE 1
        rest == SubSeq(s, from, Len(s))
    IN  IF limit < 0 \/ (limit = 0 /\ zeroIsNoLimit) \/ limit >= Len(rest) THEN rest
        ELSE SubSeq(rest, 1, limit)

\* the service is of 2025 and builds with a GORM that keeps the limit as a
\* pointer (v1.25.0 of April 2023 and later): Limit(0) is LIMIT 0
ZeroIsNoLimit == FALSE

RepoGetPaginated(rs, limit, offset, zeroIsNoLimit, fail) ==
    IF fail THEN [notes |-> <<>>, err |-> ErrDB]
    ELSE [notes |-> Window(RepoFind(rs), limit, offset, zeroIsNoLimit), err |-> Nil]

\* a search that looks at the title only
RepoSearch_TitleOnly(rs, keyword, fail) ==
    LET Match(r) == Visible(r) /\ ILike(r.Title, <<"%">> \o keyword \o <<"%">>)
    IN  IF fail THEN [notes |-> <<>>, err |-> ErrDB]
        ELSE [notes |-> SelectSeq(rs, Match), err |-> Nil]

\* Where("title ILIKE ? OR content ILIKE ?", "%"+keyword+"%", "%"+keyword+"%")
RepoSearch(rs, keyword, fail) ==
    LET Match(r) == Visible(r) /\ KeywordClause(r, keyword)
    IN  IF fail THEN [notes |-> <<>>, err |-> ErrDB]
        ELSE [notes |-> SelectSeq(rs, Match), err |-> Nil]

\* the WHERE clause that Filter builds: one AND-ed condition per populated field
FilterClause(r, filter) ==
    /\ (filter.Keyword # <<>> => KeywordClause(r, filter.Keyword))
    /\ (filter.Category # <<>> => r.Category = filter.Category)
    /\ (filter.FromDate # NilDate => r.MeetingDate >= filter.FromDate)
    /\ (filter.ToDate # NilDate => r.MeetingDate <= filter.ToDate)

RepoFilter(rs, filter, fail) ==
    LET Match(r) == Visible(r) /\ FilterClause(r, filter)
    IN  IF fail THEN [notes |-> <<>>, err |-> ErrDB]
        ELSE [notes |-> SelectSeq(rs, Match), err |-> Nil]

----------------------------------------------------------------------------
(* The use-case layer.  Every operation yields the table and sequence it   *)
(* leaves, its error, the repository methods it called with the error of   *)
(* the last of them, and what it hands back to the caller.                 *)
(*                                                                         *)
(* failAt says which repository call the storage lets down: "none", the    *)
(* read of the operation ("fetch") or its write ("write").                 *)

FailModes == {"none", "fetch", "write"}

Out(rs, sq) ==
    [rows |-> rs, seq |-> sq, err |-> Nil, calls |-> <<>>, repoErr |-> Nil,
     n |-> EmptyNote, note |-> EmptyNote, repoNotes |-> <<>>, notes |-> <<>>]

\* CreateNote that hands the note to the repository without looking at it
CreateNote_NoValidation(rs, sq, t, n, failAt) ==
    LET c == RepoCreate(rs, sq, t, n, failAt = "write")
    IN  IF c.err # Nil
        THEN [Out(c.rows, c.seq) EXCEPT !.err = ErrCreateFailed, !.n = c.n,
                                        !.calls = <<"Create">>, !.repoErr = c.err]
        ELSE [Out(c.rows, c.seq) EXCEPT !.n = c.n, !.calls = <<"Create">>]

\* CreateNote that hands the note to the repository before it validates it
CreateNote_ValidateAfterWrite(rs, sq, t, n, failAt) ==
    LET c == RepoCreate(rs, sq, t, n, failAt = "write")
    IN  IF c.err # Nil
        THEN [Out(c.rows, c.seq) EXCEPT !.err = ErrCreateFailed, !.n = c.n,
                                        !.calls = <<"Create">>, !.repoErr = c.err]
        ELSE IF n.Title = <<>>
             THEN [Out(c.rows, c.seq) EXCEPT !.err = ErrEmptyTitle, !.n = c.n,
                                             !.calls = <<"Create">>]
        ELSE IF n.Content = <<>>
             THEN [Out(c.rows, c.seq) EXCEPT !.err = ErrEmptyContent, !.n = c.n,
                                             !.calls = <<"Create">>]
        ELSE [Out(c.rows, c.seq) EXCEPT !.n = c.n, !.calls = <<"Create">>]

CreateNote(rs, sq, t, n, failAt) ==
    LET c == RepoCreate(rs, sq, t, n, failAt = "write")
    IN  IF n.Title = <<>> THEN [Out(rs, sq) EXCEPT !.err = ErrEmptyTitle, !.n = n]
        ELSE IF n.Content = <<>> THEN [Out(rs, sq) EXCEPT !.err = ErrEmptyContent, !.n = n]
        ELSE IF c.err # Nil
             THEN [Out(c.rows, c.seq) EXCEPT !.err = ErrCreateFailed, !.n = c.n,
                                             !.calls = <<"Create">>, !.repoErr = c.err]
        ELSE [Out(c.rows, c.seq) EXCEPT !.n = c.n, !.calls = <<"Create">>]

GetAllNotes(rs, sq, failAt) ==
    LET g == RepoGetAll(rs, failAt = "fetch")
    IN  IF g.err # Nil
        THEN [Out(rs, sq) EXCEPT !.err = ErrGetFailed, !.calls = <<"GetAll">>,
                                 !.repoErr = g.err]
        ELSE [Out(rs, sq) EXCEPT !.calls = <<"GetAll">>, !.repoNotes = g.notes,
                                 !.notes = SortSlice(g.notes)]

\* GetPaginatedNotes that hands the window back as the repository returned it
GetPaginatedNotes_Unsorted(rs, sq, limit, offset, zeroIsNoLimit, failAt) ==
    LET g == RepoGetPaginated(rs, limit, offset, zeroIsNoLimit, failAt = "fetch")
    IN  IF g.err # Nil
        THEN [Out(rs, sq) EXCEPT !.err = ErrGetFailed, !.calls = <<"GetPaginated">>,
                                 !.repoErr = g.err]
        ELSE [Out(rs, sq) EXCEPT !.calls = <<"GetPaginated">>, !.repoNotes = g.notes,
                                 !.notes = g.notes]

\* GetPaginatedNotes that sorts all notes and then cuts the window
GetPaginatedNotes_SortThenWindow(rs, sq, limit, offset, zeroIsNoLimit, failAt) ==
    LET g == RepoGetAll(rs, failAt = "fetch")
    IN  IF g.err # Nil
        THEN [Out(rs, sq) EXCEPT !.err = ErrGetFailed, !.calls = <<"GetPaginated">>,
                                 !.repoErr = g.err]
        ELSE [Out(rs, sq) EXCEPT !.calls = <<"GetPaginated">>,
                                 !.repoNotes = Window(SortSlice(g.notes), limit, offset,
                                                      zeroIsNoLimit),
                                 !.notes = Window(SortSlice(g.notes), limit, offset,
                                                  zeroIsNoLimit)]

GetPaginatedNotes(rs, sq, limit, offset, zeroIsNoLimit, failAt) ==
    LET g == RepoGetPaginated(rs, limit, offset, zeroIsNoLimit, failAt = "fetch")
    IN  IF g.err # Nil
        THEN [Out(rs, sq) EXCEPT !.err = ErrGetFailed, !.calls = <<"GetPaginated">>,
                                 !.repoErr = g.err]
        ELSE [Out(rs, sq) EXCEPT !.calls = <<"GetPaginated">>, !.repoNotes = g.notes,
                                 !.notes = SortSlice(g.notes)]

\* GetNoteByID that reports every repository error as NotFound
GetNoteByID_AlwaysNotFound(rs, sq, id, failAt) ==
    LET g == RepoGetByID(rs, id, failAt = "fetch")
    IN  IF g.err # Nil
        THEN [Out(rs, sq) EXCEPT !.err = ErrNoteNotFound, !.calls = <<"GetByID">>,
                                 !.repoErr = g.err]
        ELSE [Out(rs, sq) EXCEPT !.note = g.note, !.calls = <<"GetByID">>]

GetNoteByID(rs, sq, id, failAt) ==
    LET g == RepoGetByID(rs, id, failAt = "fetch")
    IN  IF g.err # Nil
        THEN IF g.err = ErrRecordNotFound
             THEN [Out(rs, sq) EXCEPT !.err = ErrNoteNotFound, !.calls = <<"GetByID">>,
                                      !.repoErr = g.err]
             ELSE [Out(rs, sq) EXCEPT !.err = ErrRetrieveFailed, !.calls = <<"GetByID">>,
                                      !.repoErr = g.err]
        ELSE [Out(rs, sq) EXCEPT !.note = g.note, !.calls = <<"GetByID">>]

\* UpdateNote that validates the incoming note before it fetches the stored one
UpdateNote_ValidateFirst(rs, sq, t, n, failAt, moved, upsert) ==
    LET g == GetNoteByID(rs, sq, n.ID, failAt)
        existingNote == [g.note EXCEPT !.Title = n.Title, !.Content = n.Content,
                                       !.Category = n.Category,
                                       !.MeetingDate = n.MeetingDate]
        u == RepoUpdate(rs, sq, t, existingNote, failAt = "write", moved, upsert)
    IN  IF n.Title = <<>> THEN [Out(rs, sq) EXCEPT !.err = ErrEmptyTitle, !.n = n]
        ELSE IF n.Content = <<>> THEN [Out(rs, sq) EXCEPT !.err = ErrEmptyContent, !.n = n]
        ELSE IF g.err # Nil
             THEN [Out(rs, sq) EXCEPT !.err = ErrNoteNotFound, !.n = n, !.calls = g.calls,
                                      !.repoErr = g.repoErr]
        ELSE IF u.err # Nil
             THEN [Out(u.rows, u.seq) EXCEPT !.err = ErrUpdateFailed, !.n = n,
                                             !.calls = Append(g.calls, "Update"),
                                             !.repoErr = u.err]
        ELSE [Out(u.rows, u.seq) EXCEPT !.n = n, !.calls = Append(g.calls, "Update")]

\* UpdateNote that saves the incoming note instead of the fetched one
UpdateNote_SaveIncoming(rs, sq, t, n, failAt, moved, upsert) ==
    LET g == GetNoteByID(rs, sq, n.ID, failAt)
        u == RepoUpdate(rs, sq, t, n, failAt = "write", moved, upsert)
    IN  IF g.err # Nil
        THEN [Out(rs, sq) EXCEPT !.err = ErrNoteNotFound, !.n = n, !.calls = g.calls,
                                 !.repoErr = g.repoErr]
        ELSE IF n.Title = <<>>
             THEN [Out(rs, sq) EXCEPT !.err = ErrEmptyTitle, !.n = n, !.calls = g.calls]
        ELSE IF n.Content = <<>>
             THEN [Out(rs, sq) EXCEPT !.err = ErrEmptyContent, !.n = n, !.calls = g.calls]
        ELSE IF u.err # Nil
             THEN [Out(u.rows, u.seq) EXCEPT !.err = ErrUpdateFailed, !.n = n,
                                             !.calls = Append(g.calls, "Update"),
                                             !.repoErr = u.err]
        ELSE [Out(u.rows, u.seq) EXCEPT !.n = n, !.calls = Append(g.calls, "Update")]

\* UpdateNote that saves the incoming note without fetching the stored one
UpdateNote_NoFetch(rs, sq, t, n, failAt, moved, upsert) ==
    LET u == RepoUpdate(rs, sq, t, n, failAt = "write", moved, upsert)
    IN  IF n.Title = <<>> THEN [Out(rs, sq) EXCEPT !.err = ErrEmptyTitle, !.n = n]
        ELSE IF n.Content = <<>> THEN [Out(rs, sq) EXCEPT !.err = ErrEmptyContent, !.n = n]
        ELSE IF u.err # Nil
             THEN [Out(u.rows, u.seq) EXCEPT !.err = ErrUpdateFailed, !.n = n,
                                             !.calls = <<"Update">>, !.repoErr = u.err]
        ELSE [Out(u.rows, u.seq) EXCEPT !.n = n, !.calls = <<"Update">>]

UpdateNote(rs, sq, t, n, failAt, moved, upsert) ==
    LET g == GetNoteByID(rs, sq, n.ID, failAt)
        existingNote == [g.note EXCEPT !.Title = n.Title, !.Content = n.Content,
                                       !.Category = n.Category,
                                       !.MeetingDate = n.MeetingDate]
        u == RepoUpdate(rs, sq, t, existingNote, failAt = "write", moved, upsert)
    IN  IF g.err # Nil
        THEN [Out(rs, sq) EXCEPT !.err = ErrNoteNotFound, !.n = n, !.calls = g.calls,
                                 !.repoErr = g.repoErr]
        ELSE IF n.Title = <<>>
             THEN [Out(rs, sq) EXCEPT !.err = ErrEmptyTitle, !.n = n, !.calls = g.calls]
        ELSE IF n.Content = <<>>
             THEN [Out(rs, sq) EXCEPT !.err = ErrEmptyContent, !.n = n, !.calls = g.calls]
        ELSE IF u.err # Nil
             THEN [Out(u.rows, u.seq) EXCEPT !.err = ErrUpdateFailed, !.n = n,
                                             !.calls = Append(g.calls, "Update"),
                                             !.repoErr = u.err]
        ELSE [Out(u.rows, u.seq) EXCEPT !.n = n, !.calls = Append(g.calls, "Update")]

\* DeleteNote that deletes without fetching first
DeleteNote_NoFetch(rs, sq, t, id, failAt) ==
    LET d == RepoDelete(rs, t, id, failAt = "write")
    IN  IF d.err # Nil
        THEN [Out(d.rows, sq) EXCEPT !.err = ErrDeleteFailed, !.calls = <<"Delete">>,
                                     !.repoErr = d.err]
        ELSE [Out(d.rows, sq) EXCEPT !.calls = <<"Delete">>]

DeleteNote(rs, sq, t, id, failAt) ==
    LET g == GetNoteByID(rs, sq, id, failAt)
        d == RepoDelete(rs, t, id, failAt = "write")
    IN  IF g.err # Nil
        THEN [Out(rs, sq) EXCEPT !.err = ErrNoteNotFound, !.calls = g.calls,
                                 !.repoErr = g.repoErr]
        ELSE IF d.err # Nil
             THEN [Out(d.rows, sq) EXCEPT !.err = ErrDeleteFailed,
                                          !.calls = Append(g.calls, "Delete"),
                                          !.repoErr = d.err]
        ELSE [Out(d.rows, sq) EXCEPT !.calls = Append(g.calls, "Delete")]

\* SearchNotesByKeyword that refuses the empty keyword only, without trimming
SearchNotesByKeyword_NoTrim(rs, sq, keyword, failAt) ==
    LET g == RepoSearch(rs, keyword, failAt = "fetch")
    IN  IF keyword = <<>> THEN [Out(rs, sq) EXCEPT !.err = ErrEmptyKeyword]
        ELSE IF g.err # Nil
             THEN [Out(rs, sq) EXCEPT !.err = ErrSearchFailed, !.calls = <<"Search">>,
                                      !.repoErr = g.err]
        ELSE [Out(rs, sq) EXCEPT !.calls = <<"Search">>, !.repoNotes = g.notes,
                                 !.notes = SortSlice(g.notes)]

SearchNotesByKeyword(rs, sq, keyword, failAt) ==
    LET g == RepoSearch(rs, keyword, failAt = "fetch")
    IN  IF TrimSpace(keyword) = <<>> THEN [Out(rs, sq) EXCEPT !.err = ErrEmptyKeyword]
        ELSE IF g.err # Nil
             THEN [Out(rs, sq) EXCEPT !.err = ErrSearchFailed, !.calls = <<"Search">>,
                                      !.repoErr = g.err]
        ELSE [Out(rs, sq) EXCEPT !.calls = <<"Search">>, !.repoNotes = g.notes,
                                 !.notes = SortSlice(g.notes)]

\* a filter of which only the keyword is trimmed
TrimFilter_KeywordOnly(filter) ==
    [filter EXCEPT !.Keyword = TrimSpace(@)]

\* the filter that FilterNotes hands to the repository
TrimFilter(filter) ==
    [filter EXCEPT !.Keyword = TrimSpace(@), !.Category = TrimSpace(@)]

\* a range check that also rejects fromDate equal to toDate
InvalidDateRange_OrEqual(filter) ==
    /\ filter.FromDate # NilDate
    /\ filter.ToDate # NilDate
    /\ filter.FromDate >= filter.ToDate

InvalidDateRange(filter) ==
    /\ filter.FromDate # NilDate
    /\ filter.ToDate # NilDate
    /\ After(filter.FromDate, filter.ToDate)

FilterNotes(rs, sq, filter, failAt) ==
    LET f == TrimFilter(filter)
        g == RepoFilter(rs, f, failAt = "fetch")
    IN  IF InvalidDateRange(f) THEN [Out(rs, sq) EXCEPT !.err = ErrInvalidDateRange]
        ELSE IF g.err # Nil
             THEN [Out(rs, sq) EXCEPT !.err = ErrFilterFailed, !.calls = <<"Filter">>,
                                      !.repoErr = g.err]
        ELSE [Out(rs, sq) EXCEPT !.calls = <<"Filter">>, !.repoNotes = g.notes,
                                 !.notes = SortSlice(g.notes)]

----------------------------------------------------------------------------
(* One caller at a time: a call is made when no result is pending, its      *)
(* result is recorded in last, and Return hands it over.                    *)

Idle ==
    [op |-> "idle", arg |-> EmptyNote, id |-> 0, kw |-> <<>>, filter |-> EmptyFilter,
     limit |-> 0, offset |-> 0, failAt |-> "none", out |-> Out(<<>>, 0), pre |-> <<>>,
     param |-> <<>>, status |-> 0, called |-> FALSE]

Init ==
    /\ rows = <<>>
    /\ seq = 1
    /\ now = 1
    /\ last = Idle
    /\ reqs = <<>>

\* what every call does with the outcome o of its operation: the table is
\* left as the operation left it and a write that changed it took a tick
Finish(call, o) ==
    /\ rows' = o.rows
    /\ seq' = o.seq
    /\ now' = IF o.rows # rows THEN now + 1 ELSE now
    /\ last' = [call EXCEPT !.out = o, !.pre = rows]
    /\ UNCHANGED reqs

CallCreateNote ==
    /\ last.op = "idle"
    /\ now < MaxClock
    /\ \E n \in CreateInputs, failAt \in {"none", "write"} :
          Finish([Idle EXCEPT !.op = "CreateNote", !.arg = n, !.id = n.ID, !.failAt = failAt],
                 CreateNote(rows, seq, now, n, failAt))

CallUpdateNote ==
    /\ last.op = "idle"
    /\ now < MaxClock
    /\ \E n \in UpdateInputs, failAt \in FailModes, moved \in BOOLEAN, upsert \in BOOLEAN :
          Finish([Idle EXCEPT !.op = "UpdateNote", !.arg = n, !.id = n.ID, !.failAt = failAt],
                 UpdateNote(rows, seq, now, n, failAt, moved, upsert))

CallDeleteNote ==
    /\ last.op = "idle"
    /\ now < MaxClock
    /\ \E id \in IDs, failAt \in FailModes :
          Finish([Idle EXCEPT !.op = "DeleteNote", !.id = id, !.failAt = failAt],
                 DeleteNote(rows, seq, now, id, failAt))

CallGetNoteByID ==
    /\ last.op = "idle"
    /\ \E id \in IDs, failAt \in {"none", "fetch"} :
          Finish([Idle EXCEPT !.op = "GetNoteByID", !.id = id, !.failAt = failAt],
                 GetNoteByID(rows, seq, id, failAt))

CallGetAllNotes ==
    /\ last.op = "idle"
    /\ \E failAt \in {"none", "fetch"} :
          Finish([Idle EXCEPT !.op = "GetAllNotes", !.failAt = failAt],
                 GetAllNotes(rows, seq, failAt))

CallGetPaginatedNotes ==
    /\ last.op = "idle"
    /\ \E limit \in Limits, offset \in Offsets, zeroIsNoLimit \in {ZeroIsNoLimit},
          failAt \in {"none", "fetch"} :
          Finish([Idle EXCEPT !.op = "GetPaginatedNotes", !.limit = limit,
                              !.offset = offset, !.failAt = failAt],
                 GetPaginatedNotes(rows, seq, limit, offset, zeroIsNoLimit, failAt))

CallSearchNotesByKeyword(keywords) ==
    /\ last.op = "idle"
    /\ \E keyword \in keywords, failAt \in {"none", "fetch"} :
          Finish([Idle EXCEPT !.op = "SearchNotesByKeyword", !.kw = keyword, !.failAt = failAt],
                 SearchNotesByKeyword(rows, seq, keyword, failAt))

CallFilterNotes(filters) ==
    /\ last.op = "idle"
    /\ \E filter \in filters, failAt \in {"none", "fetch"} :
          Finish([Idle EXCEPT !.op = "FilterNotes", !.filter = filter, !.failAt = failAt],
                 FilterNotes(rows, seq, filter, failAt))

Return ==
    /\ last.op # "idle"
    /\ last' = Idle
    /\ UNCHANGED <<rows, seq, now, reqs>>

Next ==
    \/ CallCreateNote
    \/ CallUpdateNote
    \/ CallDeleteNote
    \/ CallGetNoteByID
    \/ CallGetAllNotes
    \/ CallGetPaginatedNotes
    \/ CallSearchNotesByKeyword(SomeKeywords)
    \/ CallFilterNotes(SomeFilters)
    \/ Return

Spec == Init /\ [][Next]_vars

----------------------------------------------------------------------------
(* The queries on their own: the table is any table of at most MaxRows     *)
(* rows that creations and deletions leave, and the callers only read.     *)

\* the row that the i-th creation of a table leaves, soft-deleted or not
StoredRow(p, i, deletedAt) ==
    [MakeNote(p, i, deletedAt) EXCEPT !.CreatedAt = i, !.UpdatedAt = i]

StoredRows(i) ==
    {StoredRow(p, i, d) : p \in ValidPayloads, d \in {ZeroTime, MaxRows + 1}}

Tables ==
    UNION {{t \in [1..k -> UNION {StoredRows(i) : i \in 1..k}] :
               \A i \in 1..k : t[i] \in StoredRows(i)} : k \in 0..MaxRows}

InitQuery ==
    /\ rows \in Tables
    /\ seq = Len(rows) + 1
    /\ now = MaxRows + 2
    /\ last = Idle
    /\ reqs = <<>>

NextQuery ==
    \/ CallGetAllNotes
    \/ CallGetPaginatedNotes
    \/ CallSearchNotesByKeyword(Keywords)
    \/ CallFilterNotes(NoteFilters)
    \/ Return

SpecQuery == InitQuery /\ [][NextQuery]_vars

----------------------------------------------------------------------------
(* The handler layer: every endpoint decodes its request, calls the use    *)
(* case and answers with a status.  A response is the status, whether the  *)
(* use case was called, and the outcome of the use case, whose note is the *)
(* body of the answer.                                                     *)

StatusOK == 200
StatusCreated == 201
StatusBadRequest == 400
StatusNotFound == 404
StatusInternalServerError == 500

Digits == {"0", "1", "2", "3", "4", "5", "6", "7", "8", "9"}

DigitValue(c) ==
    CASE c = "0" -> 0 [] c = "1" -> 1 [] c = "2" -> 2 [] c = "3" -> 3 [] c = "4" -> 4
      [] c = "5" -> 5 [] c = "6" -> 6 [] c = "7" -> 7 [] c = "8" -> 8 [] c = "9" -> 9

DigitChar(d) ==
    CASE d = 0 -> "0" [] d = 1 -> "1" [] d = 2 -> "2" [] d = 3 -> "3" [] d = 4 -> "4"
      [] d = 5 -> "5" [] d = 6 -> "6" [] d = 7 -> "7" [] d = 8 -> "8" [] d = 9 -> "9"

RECURSIVE ParseDigits(_, _)
ParseDigits(s, acc) ==
    IF s = <<>> THEN acc ELSE ParseDigits(Tail(s), acc * 10 + DigitValue(Head(s)))

\* strconv.Atoi: an optional sign and then one or more decimal digits; the
\* parameters of the model are too short to be out of range
Atoi(s) ==
    LET signed == s # <<>> /\ Head(s) \in {"+", "-"}
        body == IF signed THEN Tail(s) ELSE s
        ok == body # <<>> /\ \A i \in 1..Len(body) : body[i] \in Digits
    IN  IF ~ok THEN [val |-> 0, ok |-> FALSE]
        ELSE [val |-> IF Head(s) = "-" THEN 0 - ParseDigits(body, 0)
                      ELSE ParseDigits(body, 0),
              ok |-> TRUE]

\* the decimal numeral of an identifier, as a client writes it in a path
RECURSIVE Itoa(_)
Itoa(n) ==
    IF n < 10 THEN <<DigitChar(n)>> ELSE Append(Itoa(n \div 10), DigitChar(n % 10))

\* the number of values of a uint; 2^30 stands for 2^64, which the integers of
\* the model checker cannot hold, and is as far beyond every identifier
UintModulus == 2^30

\* uint(id): a negative int wraps around
Uint(id) == id % UintModulus

\* the :id of a path: plain, with a leading zero, unassigned, not a number,
\* and negative
IDParams == {<<"1">>, <<"0", "2">>, <<"3">>, <<"a">>, <<"-", "1">>}

\* a parameter of the query string, which may be absent
Absent == [present |-> FALSE, value |-> <<>>]
Param(v) == [present |-> TRUE, value |-> v]

\* c.Query and c.DefaultQuery
Query(p) == IF p.present THEN p.value ELSE <<>>
DefaultQuery(p, defaultValue) == IF p.present THEN p.value ELSE defaultValue

LimitParams == {Absent, Param(<<"0">>), Param(<<"2">>), Param(<<"x">>)}
OffsetParams == {Absent, Param(<<"1">>), Param(<<>>)}
KeywordParams == {Absent, Param(<<" ">>), Param(<<"a">>), Param(<<"_">>), Param(<<"c">>)}

\* a request body: JSON that does not bind, or the note that ShouldBindJSON
\* leaves, with whatever the body says about identifier and deletion marker
BadJSON == [ok |-> FALSE, note |-> EmptyNote]
Body(n) == [ok |-> TRUE, note |-> n]

BodyPayloads ==
    { [Title |-> <<"A", "b">>, Content |-> <<"c">>, Category |-> <<"x">>, MeetingDate |-> 2],
      [Title |-> <<" ">>, Content |-> <<" ">>, Category |-> <<>>, MeetingDate |-> 1],
      [Title |-> <<>>, Content |-> <<"c">>, Category |-> <<"x">>, MeetingDate |-> 3],
      [Title |-> <<"A", "b">>, Content |-> <<>>, Category |-> <<>>, MeetingDate |-> 3] }

Bodies ==
    {BadJSON} \cup {Body(MakeNote(p, 0, ZeroTime)) : p \in BodyPayloads}
              \cup {Body(MakeNote(p, id, d)) : p \in {q \in BodyPayloads : q.MeetingDate = 2},
                                               id \in {0, 2}, d \in {ZeroTime, 1}}

Response(status, called, o) == [status |-> status, called |-> called, out |-> o]

CreateNoteApi(rs, sq, t, body, failAt) ==
    LET o == CreateNote(rs, sq, t, body.note, failAt)
    IN  IF ~body.ok THEN Response(StatusBadRequest, FALSE, Out(rs, sq))
        ELSE IF o.err # Nil
             THEN IF o.err = ErrEmptyTitle THEN Response(StatusBadRequest, TRUE, o)
                  ELSE IF o.err = ErrEmptyContent THEN Response(StatusBadRequest, TRUE, o)
                  ELSE Response(StatusInternalServerError, TRUE, o)
        ELSE Response(StatusCreated, TRUE, o)

GetAllNotesApi(rs, sq, failAt) ==
    LET o == GetAllNotes(rs, sq, failAt)
    IN  IF o.err # Nil THEN Response(StatusInternalServerError, TRUE, o)
        ELSE IF Len(o.notes) = 0 THEN Response(StatusOK, TRUE, o)
        ELSE Response(StatusOK, TRUE, o)

GetPaginatedNotesApi(rs, sq, limitParam, offsetParam, zeroIsNoLimit, failAt) ==
    LET limit == Atoi(DefaultQuery(limitParam, <<"1", "0">>))
        offset == Atoi(DefaultQuery(offsetParam, <<"0">>))
        o == GetPaginatedNotes(rs, sq, limit.val, offset.val, zeroIsNoLimit, failAt)
    IN  IF ~limit.ok THEN Response(StatusBadRequest, FALSE, Out(rs, sq))
        ELSE IF ~offset.ok THEN Response(StatusBadRequest, FALSE, Out(rs, sq))
        ELSE IF o.err # Nil THEN Response(StatusInternalServerError, TRUE, o)
        ELSE IF Len(o.notes) = 0 THEN Response(StatusOK, TRUE, o)
        ELSE Response(StatusOK, TRUE, o)

\* GetNoteByIDApi that answers a storage failure as a server error
GetNoteByIDApi_ServerError(rs, sq, param, failAt) ==
    LET id == Atoi(param)
        o == GetNoteByID(rs, sq, Uint(id.val), failAt)
    IN  IF ~id.ok THEN Response(StatusBadRequest, FALSE, Out(rs, sq))
        ELSE IF o.err # Nil
             THEN IF o.err = ErrNoteNotFound THEN Response(StatusNotFound, TRUE, o)
                  ELSE Response(StatusInternalServerError, TRUE, o)
        ELSE Response(StatusOK, TRUE, o)

GetNoteByIDApi(rs, sq, param, failAt) ==
    LET id == Atoi(param)
        o == GetNoteByID(rs, sq, Uint(id.val), failAt)
    IN  IF ~id.ok THEN Response(StatusBadRequest, FALSE, Out(rs, sq))
        ELSE IF o.err # Nil THEN Response(StatusNotFound, TRUE, o)
        ELSE Response(StatusOK, TRUE, o)

UpdateNoteApi(rs, sq, t, param, body, failAt, moved, upsert) ==
    LET id == Atoi(param)
        note == [body.note EXCEPT !.ID = Uint(id.val)]
        o == UpdateNote(rs, sq, t, note, failAt, moved, upsert)
    IN  IF ~id.ok THEN Response(StatusBadRequest, FALSE, Out(rs, sq))
        ELSE IF ~body.ok THEN Response(StatusBadRequest, FALSE, Out(rs, sq))
        ELSE IF o.err # Nil
             THEN IF o.err = ErrEmptyTitle THEN Response(StatusBadRequest, TRUE, o)
                  ELSE IF o.err = ErrEmptyContent THEN Response(StatusBadRequest, TRUE, o)
                  ELSE Response(StatusInternalServerError, TRUE, o)
        ELSE Response(StatusOK, TRUE, o)

DeleteNoteApi(rs, sq, t, param, failAt) ==
    LET id == Atoi(param)
        o == DeleteNote(rs, sq, t, Uint(id.val), failAt)
    IN  IF ~id.ok THEN Response(StatusBadRequest, FALSE, Out(rs, sq))
        ELSE IF o.err # Nil
             THEN IF o.err = ErrNoteNotFound THEN Response(StatusBadRequest, TRUE, o)
                  ELSE Response(StatusInternalServerError, TRUE, o)
        ELSE Response(StatusOK, TRUE, o)

SearchNotesByKeywordApi(rs, sq, keywordParam, failAt) ==
    LET keyword == Query(keywordParam)
        o == SearchNotesByKeyword(rs, sq, keyword, failAt)
    IN  IF TrimSpace(keyword) = <<>> THEN Response(StatusBadRequest, FALSE, Out(rs, sq))
        ELSE IF o.err # Nil THEN Response(StatusInternalServerError, TRUE, o)
        ELSE IF Len(o.notes) = 0 THEN Response(StatusOK, TRUE, o)
        ELSE Response(StatusOK, TRUE, o)

\* what every endpoint does with its response r: the table is left as the use
\* case left it, and the request is recorded with its answer
FinishApi(call, r) ==
    Finish([call EXCEPT !.status = r.status, !.called = r.called], r.out)

ServeCreateNoteApi ==
    /\ last.op = "idle"
    /\ now < MaxClock
    /\ \E body \in Bodies, failAt \in {"none", "write"} :
          FinishApi([Idle EXCEPT !.op = "CreateNoteApi", !.arg = body.note,
                                 !.id = body.note.ID, !.failAt = failAt],
                    CreateNoteApi(rows, seq, now, body, failAt))

ServeGetAllNotesApi ==
    /\ last.op = "idle"
    /\ \E failAt \in {"none", "fetch"} :
          FinishApi([Idle EXCEPT !.op = "GetAllNotesApi", !.failAt = failAt],
                    GetAllNotesApi(rows, seq, failAt))

ServeGetPaginatedNotesApi ==
    /\ last.op = "idle"
    /\ \E limitParam \in LimitParams, offsetParam \in OffsetParams,
          zeroIsNoLimit \in {ZeroIsNoLimit}, failAt \in {"none", "fetch"} :
          FinishApi([Idle EXCEPT !.op = "GetPaginatedNotesApi",
                                 !.limit = Atoi(DefaultQuery(limitParam, <<"1", "0">>)).val,
                                 !.offset = Atoi(DefaultQuery(offsetParam, <<"0">>)).val,
                                 !.failAt = failAt],
                    GetPaginatedNotesApi(rows, seq, limitParam, offsetParam,
                                         zeroIsNoLimit, failAt))

ServeGetNoteByIDApi ==
    /\ last.op = "idle"
    /\ \E param \in IDParams, failAt \in {"none", "fetch"} :
          FinishApi([Idle EXCEPT !.op = "GetNoteByIDApi", !.param = param,
                                 !.id = Uint(Atoi(param).val), !.failAt = failAt],
                    GetNoteByIDApi(rows, seq, param, failAt))

ServeUpdateNoteApi ==
    /\ last.op = "idle"
    /\ now < MaxClock
    /\ \E param \in IDParams, body \in Bodies, failAt \in FailModes,
          moved \in BOOLEAN, upsert \in BOOLEAN :
          FinishApi([Idle EXCEPT !.op = "UpdateNoteApi", !.param = param,
                                 !.id = Uint(Atoi(param).val),
                                 !.arg = [body.note EXCEPT !.ID = Uint(Atoi(param).val)],
                                 !.failAt = failAt],
                    UpdateNoteApi(rows, seq, now, param, body, failAt, moved, upsert))

ServeDeleteNoteApi ==
    /\ last.op = "idle"
    /\ now < MaxClock
    /\ \E param \in IDParams, failAt \in FailModes :
          FinishApi([Idle EXCEPT !.op = "DeleteNoteApi", !.param = param,
                                 !.id = Uint(Atoi(param).val), !.failAt = failAt],
                    DeleteNoteApi(rows, seq, now, param, failAt))

ServeSearchNotesByKeywordApi ==
    /\ last.op = "idle"
    /\ \E keywordParam \in KeywordParams, failAt \in {"none", "fetch"} :
          FinishApi([Idle EXCEPT !.op = "SearchNotesByKeywordApi",
                                 !.kw = Query(keywordParam), !.failAt = failAt],
                    SearchNotesByKeywordApi(rows, seq, keywordParam, failAt))

\* the routes of the service, next to callers that use the list operations of
\* the use case directly
NextHttp ==
    \/ ServeCreateNoteApi
    \/ ServeGetAllNotesApi
    \/ ServeGetPaginatedNotesApi
    \/ ServeGetNoteByIDApi
    \/ ServeUpdateNoteApi
    \/ ServeDeleteNoteApi
    \/ ServeSearchNotesByKeywordApi
    \/ CallGetAllNotes
    \/ CallGetPaginatedNotes
    \/ CallSearchNotesByKeyword(Keywords)
    \/ CallFilterNotes(SomeFilters)
    \/ Return

SpecHttp == Init /\ [][NextHttp]_vars

----------------------------------------------------------------------------
(* Two requests in flight at once.  Every request is handled on its own    *)
(* goroutine and shares nothing with the other but the table; UpdateNote   *)
(* and DeleteNote each send two statements, the SELECT of GetNoteByID and   *)
(* then the write, and the statements of two requests reach the table in   *)
(* any order.  reqs holds the two requests: where each one is, what its    *)
(* read returned, and how it ended.                                        *)

\* largest number of rows of the table that the two requests find
MaxConcurrentRows == 2

\* what the two requests send: two notes that differ in every replaceable
\* attribute and one that fails validation
ConcurrentPayloads ==
    { [Title |-> <<"A", "b">>, Content |-> <<"c">>, Category |-> <<"x">>, MeetingDate |-> 2],
      [Title |-> <<"b">>, Content |-> <<" ">>, Category |-> <<>>, MeetingDate |-> 3],
      [Title |-> <<"A", "b">>, Content |-> <<>>, Category |-> <<>>, MeetingDate |-> 3] }

ConcurrentIDs == {1, 2}

\* a request that has not run a statement yet
Request(op, n) ==
    [op |-> op, arg |-> n, id |-> n.ID, pc |-> "fetch", existingNote |-> EmptyNote,
     err |-> Nil, fault |-> FALSE, wrote |-> 0, pre |-> <<>>]

ConcurrentCalls ==
    {Request("UpdateNote", MakeNote(p, id, ZeroTime)) :
         p \in ConcurrentPayloads, id \in ConcurrentIDs}
    \cup {Request("DeleteNote", [EmptyNote EXCEPT !.ID = id]) : id \in ConcurrentIDs}

\* UpdateNote up to the call of repo.Update: the read of the stored note, the
\* validation, and the four attributes copied into the note that was read
UpdateNoteFetch(rs, sq, n, fail) ==
    LET g == GetNoteByID(rs, sq, n.ID, IF fail THEN "fetch" ELSE "none")
    IN  IF g.err # Nil THEN [err |-> ErrNoteNotFound, existingNote |-> EmptyNote]
        ELSE IF n.Title = <<>> THEN [err |-> ErrEmptyTitle, existingNote |-> g.note]
        ELSE IF n.Content = <<>> THEN [err |-> ErrEmptyContent, existingNote |-> g.note]
        ELSE [err |-> Nil,
              existingNote |-> [g.note EXCEPT !.Title = n.Title, !.Content = n.Content,
                                              !.Category = n.Category,
                                              !.MeetingDate = n.MeetingDate]]

\* an update that is refused when the stored note changed since it was read
UpdateNoteWrite_Versioned(rs, sq, t, existingNote, fail, moved, upsert) ==
    LET u == RepoUpdate(rs, sq, t, existingNote, fail, moved, upsert)
        i == VisibleIndex(rs, existingNote.ID)
    IN  IF i # 0 /\ rs[i].UpdatedAt # existingNote.UpdatedAt
        THEN [rows |-> rs, seq |-> sq, err |-> ErrUpdateFailed]
        ELSE [rows |-> u.rows, seq |-> u.seq,
              err |-> IF u.err # Nil THEN ErrUpdateFailed ELSE Nil]

\* UpdateNote from the call of repo.Update on: the note that was read, with
\* the four new attributes, is saved
UpdateNoteWrite(rs, sq, t, existingNote, fail, moved, upsert) ==
    LET u == RepoUpdate(rs, sq, t, existingNote, fail, moved, upsert)
    IN  [rows |-> u.rows, seq |-> u.seq,
         err |-> IF u.err # Nil THEN ErrUpdateFailed ELSE Nil]

\* DeleteNote up to the call of repo.Delete: the read of the stored note
DeleteNoteFetch(rs, sq, id, fail) ==
    LET g == GetNoteByID(rs, sq, id, IF fail THEN "fetch" ELSE "none")
    IN  [err |-> IF g.err # Nil THEN ErrNoteNotFound ELSE Nil,
         existingNote |-> g.note]

\* DeleteNote from the call of repo.Delete on
DeleteNoteWrite(rs, sq, t, id, fail) ==
    LET d == RepoDelete(rs, t, id, fail)
    IN  [rows |-> d.rows, seq |-> sq,
         err |-> IF d.err # Nil THEN ErrDeleteFailed ELSE Nil]

\* request i has run its read with the outcome f
Read(i, f, fail) ==
    /\ reqs' = [reqs EXCEPT ![i].pc = IF f.err = Nil THEN "write" ELSE "done",
                            ![i].err = f.err,
                            ![i].existingNote = f.existingNote,
                            ![i].fault = fail]
    /\ UNCHANGED <<rows, seq, now, last>>

\* request i has run its write with the outcome w, at the tick of the clock
Written(i, w, fail) ==
    /\ rows' = w.rows
    /\ seq' = w.seq
    /\ now' = now + 1
    /\ reqs' = [reqs EXCEPT ![i].pc = "done", ![i].err = w.err,
                            ![i].fault = fail, ![i].wrote = now]
    /\ UNCHANGED last

UpdateNoteFetchStep(i) ==
    /\ reqs[i].op = "UpdateNote"
    /\ reqs[i].pc = "fetch"
    /\ \E fail \in BOOLEAN :
          Read(i, UpdateNoteFetch(rows, seq, reqs[i].arg, fail), fail)

UpdateNoteWriteStep(i) ==
    /\ reqs[i].op = "UpdateNote"
    /\ reqs[i].pc = "write"
    /\ \E fail \in BOOLEAN, moved \in BOOLEAN, upsert \in BOOLEAN :
          Written(i, UpdateNoteWrite(rows, seq, now, reqs[i].existingNote, fail,
                                     moved, upsert), fail)

DeleteNoteFetchStep(i) ==
    /\ reqs[i].op = "DeleteNote"
    /\ reqs[i].pc = "fetch"
    /\ \E fail \in BOOLEAN :
          Read(i, DeleteNoteFetch(rows, seq, reqs[i].id, fail), fail)

DeleteNoteWriteStep(i) ==
    /\ reqs[i].op = "DeleteNote"
    /\ reqs[i].pc = "write"
    /\ \E fail \in BOOLEAN :
          Written(i, DeleteNoteWrite(rows, seq, now, reqs[i].id, fail), fail)

\* two requests arrive at a table of at most MaxConcurrentRows rows
InitConcurrent ==
    /\ rows \in {t \in Tables : Len(t) <= MaxConcurrentRows}
    /\ seq = Len(rows) + 1
    /\ now = MaxRows + 2
    /\ last = Idle
    /\ \E calls \in [1..2 -> ConcurrentCalls] :
          reqs = [i \in 1..2 |-> [calls[i] EXCEPT !.pre = rows]]

NextConcurrent ==
    \E i \in 1..2 :
        \/ UpdateNoteFetchStep(i)
        \/ UpdateNoteWriteStep(i)
        \/ DeleteNoteFetchStep(i)
        \/ DeleteNoteWriteStep(i)

SpecConcurrent == InitConcurrent /\ [][NextConcurrent]_vars

----------------------------------------------------------------------------
(* Properties *)

IDsOf(rs) == {rs[i].ID : i \in 1..Len(rs)}

RowOf(rs, id) == rs[CHOOSE i \in 1..Len(rs) : rs[i].ID = id]

SameNoteFields(a, b) ==
    /\ a.Title = b.Title
    /\ a.Content = b.Content
    /\ a.Category = b.Category
    /\ a.MeetingDate = b.MeetingDate

SoftDeleted(r) == r.DeletedAt # ZeroTime

\* a row of rs that is not soft-deleted has the identifier
HasLive(rs, id) == \E i \in 1..Len(rs) : rs[i].ID = id /\ ~SoftDeleted(rs[i])

Live(rs) == {r \in Range(rs) : ~SoftDeleted(r)}

\* the fetch at the start of UpdateNote and DeleteNote found the note
Fetched == HasLive(last.pre, last.id) /\ last.failAt # "fetch"

\* C1, as stated: an empty title makes CreateNote and UpdateNote fail with
\* EmptyTitle, and a non-empty title with an empty content makes them fail with
\* EmptyContent, for every identifier the note carries.
C1_AsStated ==
    last.op \in {"CreateNote", "UpdateNote"} =>
        /\ (last.arg.Title = <<>> => last.out.err = ErrEmptyTitle)
        /\ (last.arg.Title # <<>> /\ last.arg.Content = <<>> =>
                last.out.err = ErrEmptyContent)

\* C1, amended: CreateNote fails with EmptyTitle on an empty title and with
\* EmptyContent on a non-empty title with an empty content, in every state of
\* the table.  UpdateNote does so when its fetch of the note's identifier
\* succeeds; when the fetch fails it fails with NotFound, whatever the title
\* and the content are.
C1_Validation ==
    /\ last.op = "CreateNote" =>
          /\ (last.arg.Title = <<>> => last.out.err = ErrEmptyTitle)
          /\ (last.arg.Title # <<>> /\ last.arg.Content = <<>> =>
                  last.out.err = ErrEmptyContent)
    /\ last.op = "UpdateNote" =>
          /\ (last.arg.Title = <<>> =>
                  last.out.err = IF Fetched THEN ErrEmptyTitle ELSE ErrNoteNotFound)
          /\ (last.arg.Title # <<>> /\ last.arg.Content = <<>> =>
                  last.out.err = IF Fetched THEN ErrEmptyContent ELSE ErrNoteNotFound)

\* an update with an empty title of a note that is there
C1_Witness ==
    /\ last.op = "UpdateNote"
    /\ last.arg.Title = <<>>
    /\ last.arg.Content = <<>>
    /\ Fetched
    /\ last.out.err = ErrEmptyTitle

C3_RoundTrip ==
    (last.op = "CreateNote" /\ last.out.err = Nil) =>
        LET g == GetNoteByID(rows, seq, last.out.n.ID, "none")
        IN  g.err = Nil /\ SameNoteFields(g.note, last.arg)

\* C4: no read returns a soft-deleted note: GetNoteByID on the identifier of
\* one fails (with NotFound unless the storage lets the call down), and no list
\* operation, with any argument, has one in its result.
C4_DeletedNeverRead ==
    /\ ( /\ last.op = "GetNoteByID"
         /\ \E i \in 1..Len(rows) : rows[i].ID = last.id /\ SoftDeleted(rows[i]) ) =>
            last.out.err = IF last.failAt = "fetch" THEN ErrRetrieveFailed
                           ELSE ErrNoteNotFound
    /\ last.op = "GetNoteByID" /\ last.out.err = Nil => ~SoftDeleted(last.out.note)
    /\ last.op \in {"GetAllNotes", "GetPaginatedNotes", "SearchNotesByKeyword",
                    "FilterNotes"} =>
            \A i \in 1..Len(last.out.notes) : last.out.notes[i] \in Live(rows)
    /\ last.op = "idle" =>
            /\ \A f \in NoteFilters :
                   Range(FilterNotes(rows, seq, f, "none").notes) \subseteq Live(rows)
            /\ \A k \in Keywords :
                   Range(SearchNotesByKeyword(rows, seq, k, "none").notes) \subseteq Live(rows)
            /\ \A limit \in Limits, offset \in Offsets, z \in BOOLEAN :
                   Range(GetPaginatedNotes(rows, seq, limit, offset, z, "none").notes)
                       \subseteq Live(rows)

\* a list is read from a table that holds a soft-deleted note and another one
C4_Witness ==
    /\ last.op = "GetAllNotes"
    /\ last.out.notes # <<>>
    /\ \E i \in 1..Len(rows) : SoftDeleted(rows[i])

\* C5: GetNoteByID returns NotFound exactly when the repository reports its
\* record-not-found error, which it does exactly when no row that is not
\* soft-deleted has the identifier; it returns the distinct retrieval failure
\* for every other repository error, and the stored note without an error
\* otherwise.
C5_GetNoteByIDErrors ==
    last.op = "GetNoteByID" =>
        /\ last.out.calls = <<"GetByID">>
        /\ (last.out.err = ErrNoteNotFound <=> last.out.repoErr = ErrRecordNotFound)
        /\ (last.out.err = ErrRetrieveFailed <=>
                last.out.repoErr \notin {Nil, ErrRecordNotFound})
        /\ (last.out.err = Nil <=> last.out.repoErr = Nil)
        /\ (last.out.repoErr = ErrRecordNotFound <=>
                (last.failAt = "none" /\ ~HasLive(rows, last.id)))
        /\ (last.out.err = Nil =>
                /\ last.out.note.ID = last.id
                /\ last.out.note \in Live(rows))

\* the storage lets down the fetch of a note that is there
C5_Witness ==
    /\ last.op = "GetNoteByID"
    /\ HasLive(rows, last.id)
    /\ last.out.err = ErrRetrieveFailed

\* the notes of rs that are not soft-deleted have pairwise distinct meeting dates
DistinctDates(rs) ==
    \A i, j \in 1..Len(rs) :
        (i # j /\ ~SoftDeleted(rs[i]) /\ ~SoftDeleted(rs[j])) =>
            rs[i].MeetingDate # rs[j].MeetingDate

\* C6: on a table whose notes have pairwise distinct meeting dates, what
\* GetAllNotes, SearchNotesByKeyword and FilterNotes return is strictly
\* descending by meeting date and is a permutation of what the repository
\* returned for the call.
C6_SortedDescending ==
    ( /\ last.op \in {"GetAllNotes", "SearchNotesByKeyword", "FilterNotes"}
      /\ last.out.err = Nil
      /\ DistinctDates(rows) ) =>
        /\ \A i \in 1..(Len(last.out.notes) - 1) :
               last.out.notes[i].MeetingDate > last.out.notes[i + 1].MeetingDate
        /\ Len(last.out.notes) = Len(last.out.repoNotes)
        /\ Range(last.out.notes) = Range(last.out.repoNotes)

\* three notes come back from the repository in another order than the sorted one
C6_Witness ==
    /\ last.op = "FilterNotes"
    /\ last.out.err = Nil
    /\ DistinctDates(rows)
    /\ Len(last.out.notes) = 3
    /\ last.out.notes # last.out.repoNotes

\* C7: FilterNotes fails with InvalidDateRange exactly when both date bounds
\* are present and fromDate is after toDate (equal bounds are accepted), and
\* then it has called no repository method.
C7_InvalidDateRange ==
    last.op = "FilterNotes" =>
        /\ last.out.err = ErrInvalidDateRange <=>
              ( /\ last.filter.FromDate # NilDate
                /\ last.filter.ToDate # NilDate
                /\ last.filter.FromDate > last.filter.ToDate )
        /\ last.out.err = ErrInvalidDateRange =>
              (last.out.calls = <<>> /\ last.out.notes = <<>>)
        /\ last.out.err # ErrInvalidDateRange => last.out.calls = <<"Filter">>

\* a filter with fromDate equal to toDate finds a note
C7_Witness ==
    /\ last.op = "FilterNotes"
    /\ last.filter.FromDate # NilDate
    /\ last.filter.FromDate = last.filter.ToDate
    /\ last.out.err = Nil
    /\ last.out.notes # <<>>

\* the constraint that a filter puts on a note, as the specification words it
SubstringMatch(r, keyword) ==
    \/ Contains(ToLower(r.Title), ToLower(keyword))
    \/ Contains(ToLower(r.Content), ToLower(keyword))

Satisfies(r, filter) ==
    LET keyword == TrimSpace(filter.Keyword)
        category == TrimSpace(filter.Category)
    IN  /\ (keyword # <<>> => SubstringMatch(r, keyword))
        /\ (category # <<>> => r.Category = category)
        /\ (filter.FromDate # NilDate => r.MeetingDate >= filter.FromDate)
        /\ (filter.ToDate # NilDate => r.MeetingDate <= filter.ToDate)

\* C8: with a valid date range, FilterNotes returns exactly the notes that are
\* not soft-deleted and satisfy every populated field of the filter: keyword a
\* case-insensitive substring of title or content, category equal, meeting
\* date within the inclusive bounds.
C8_FilterExact ==
    (last.op = "FilterNotes" /\ last.out.err = Nil) =>
        /\ Range(last.out.notes) = {r \in Live(rows) : Satisfies(r, last.filter)}
        /\ Len(last.out.notes) = Cardinality(Range(last.out.notes))

\* C9: DeleteNote on an identifier that no note that is not soft-deleted has
\* (never assigned, or deleted before) fails with NotFound, calls no repository
\* write and leaves the table as it was; after a successful DeleteNote a
\* second one on the same identifier fails with NotFound.
C9_DeleteMissing ==
    /\ (last.op = "DeleteNote" /\ ~HasLive(last.pre, last.id)) =>
          /\ last.out.err = ErrNoteNotFound
          /\ last.out.calls = <<"GetByID">>
          /\ rows = last.pre
    /\ (last.op = "DeleteNote" /\ last.out.err = Nil) =>
          /\ ~HasLive(rows, last.id)
          /\ DeleteNote(rows, seq, now, last.id, "none").err = ErrNoteNotFound
          /\ DeleteNote(rows, seq, now, last.id, "none").rows = rows

\* a note that was deleted before is deleted again
C9_Witness ==
    /\ last.op = "DeleteNote"
    /\ \E i \in 1..Len(last.pre) : last.pre[i].ID = last.id /\ SoftDeleted(last.pre[i])
    /\ last.out.err = ErrNoteNotFound

\* the stored note with the identifier of the last call, before and after it
Before == RowOf(last.pre, last.id)
Stored == RowOf(rows, last.id)

OthersUnchanged ==
    /\ Len(rows) = Len(last.pre)
    /\ {r \in Range(rows) : r.ID # last.id} = {r \in Range(last.pre) : r.ID # last.id}

\* C10, as stated: a successful UpdateNote(n) changes only title, content,
\* category and meeting date of the stored note with n's identifier; nothing
\* else of that note and no other stored note changes.
C10_AsStated ==
    (last.op = "UpdateNote" /\ last.out.err = Nil) =>
        /\ SameNoteFields(Stored, last.arg)
        /\ Stored = [Before EXCEPT !.Title = last.arg.Title,
                                   !.Content = last.arg.Content,
                                   !.Category = last.arg.Category,
                                   !.MeetingDate = last.arg.MeetingDate]
        /\ OthersUnchanged

\* C10, amended: a successful UpdateNote(n) changes, in the stored note with
\* n's identifier, only title, content, category and meeting date (to n's
\* values) and the last-update timestamp (to the time of the write); that
\* note's identifier, creation timestamp and soft-deletion marker, and every
\* other stored note, are unchanged, whatever n carries in those attributes.
C10_UpdateFrame ==
    (last.op = "UpdateNote" /\ last.out.err = Nil) =>
        /\ SameNoteFields(Stored, last.arg)
        /\ Stored.ID = Before.ID
        /\ Stored.CreatedAt = Before.CreatedAt
        /\ Stored.DeletedAt = Before.DeletedAt
        /\ Stored.UpdatedAt = now - 1
        /\ Stored.UpdatedAt > Before.UpdatedAt
        /\ OthersUnchanged

\* an update that carries a soft-deletion marker changes one of two notes
C10_Witness ==
    /\ last.op = "UpdateNote"
    /\ last.out.err = Nil
    /\ last.arg.DeletedAt # ZeroTime
    /\ Len(rows) >= 2
    /\ ~SameNoteFields(Before, last.arg)

\* C11: UpdateNote(n) fails with NotFound when no note that is not soft-deleted
\* has n's identifier (never assigned, or soft-deleted); the repository's
\* Update is then not called, no record is created and a soft-deleted record
\* is not brought back: the table is as it was.
C11_UpdateMissing ==
    (last.op = "UpdateNote" /\ ~HasLive(last.pre, last.id)) =>
        /\ last.out.err = ErrNoteNotFound
        /\ last.out.calls = <<"GetByID">>
        /\ rows = last.pre
        /\ Len(rows) = Len(last.pre)
        /\ \A i \in 1..Len(rows) : SoftDeleted(rows[i]) <=> SoftDeleted(last.pre[i])

\* a valid update is sent for a note that was soft-deleted
C11_Witness ==
    /\ last.op = "UpdateNote"
    /\ last.failAt = "none"
    /\ last.arg.Title # <<>>
    /\ last.arg.Content # <<>>
    /\ \E i \in 1..Len(last.pre) : last.pre[i].ID = last.id /\ SoftDeleted(last.pre[i])
    /\ last.out.err = ErrNoteNotFound

\* C13: for every table and every keyword that is not empty after trimming,
\* SearchNotesByKeyword returns exactly the notes that are not soft-deleted
\* and whose title or content contains the keyword as a substring, compared
\* without regard to case, each of them once.
C13_SearchExact ==
    (last.op = "SearchNotesByKeyword" /\ last.out.err = Nil) =>
        /\ Range(last.out.notes) = {r \in Live(rows) : SubstringMatch(r, last.kw)}
        /\ Len(last.out.notes) = Cardinality(Range(last.out.notes))

\* the errors of the taxonomy and the opaque failure of every operation
Taxonomy ==
    {ErrEmptyTitle, ErrEmptyContent, ErrEmptyKeyword, ErrInvalidDateRange, ErrNoteNotFound}

FailedOf(op) ==
    CASE op = "CreateNote" -> ErrCreateFailed
      [] op = "GetAllNotes" -> ErrGetFailed
      [] op = "GetPaginatedNotes" -> ErrGetFailed
      [] op = "GetNoteByID" -> ErrRetrieveFailed
      [] op = "UpdateNote" -> ErrUpdateFailed
      [] op = "DeleteNote" -> ErrDeleteFailed
      [] op = "SearchNotesByKeyword" -> ErrSearchFailed
      [] op = "FilterNotes" -> ErrFilterFailed
      [] OTHER -> Nil

UsecaseOps ==
    {"CreateNote", "GetAllNotes", "GetPaginatedNotes", "GetNoteByID", "UpdateNote",
     "DeleteNote", "SearchNotesByKeyword", "FilterNotes"}

\* C14: in every use-case operation a repository error other than the
\* not-found signal is reported as an opaque failure (that of the operation,
\* or the retrieval failure when the fetch inside UpdateNote or DeleteNote
\* failed) and never as an error of the taxonomy.
C14_StorageErrorsOpaque ==
    (last.op \in UsecaseOps /\ last.out.repoErr \notin {Nil, ErrRecordNotFound}) =>
        /\ last.out.err \notin Taxonomy
        /\ \/ last.out.err = FailedOf(last.op)
           \/ /\ last.op \in {"UpdateNote", "DeleteNote"}
              /\ last.failAt = "fetch"
              /\ last.out.err = ErrRetrieveFailed

\* C20: after any sequence of CreateNote, UpdateNote and DeleteNote calls,
\* successful or failing, on a table whose notes have a non-empty title and a
\* non-empty content, every stored note has a non-empty title and a non-empty
\* content.
C20_TitleAndContentNonEmpty ==
    \A i \in 1..Len(rows) : rows[i].Title # <<>> /\ rows[i].Content # <<>>

\* an update with an empty content was refused and a whitespace-only note is stored
C20_Witness ==
    /\ last.op = "UpdateNote"
    /\ Fetched
    /\ last.arg.Title # <<>>
    /\ last.arg.Content = <<>>
    /\ last.out.err = ErrEmptyContent
    /\ rows = last.pre
    /\ \E i \in 1..Len(rows) : rows[i].Title = <<" ">>
    /\ \E i \in 1..Len(rows) : SoftDeleted(rows[i])

\* a string of nothing but white space
Blank(s) == \A i \in 1..Len(s) : s[i] = " "

\* a decimal integer: an optional sign and then digits only
IsInteger(s) ==
    LET body == IF s # <<>> /\ s[1] \in {"+", "-"} THEN SubSeq(s, 2, Len(s)) ELSE s
    IN  body # <<>> /\ \A i \in 1..Len(body) : body[i] \in Digits

\* C12: SearchNotesByKeyword fails with the EmptyKeyword error, without calling
\* the repository, exactly when the keyword is empty after trimming white
\* space; GET /notes/search with such a keyword (or with none) is answered
\* with 400 and does not reach the use case.
C12_EmptyKeyword ==
    /\ last.op = "SearchNotesByKeyword" =>
          /\ last.out.err = ErrEmptyKeyword <=> Blank(last.kw)
          /\ last.out.err = ErrEmptyKeyword =>
                (last.out.calls = <<>> /\ last.out.notes = <<>>)
          /\ last.out.err # ErrEmptyKeyword => last.out.calls = <<"Search">>
    /\ last.op = "SearchNotesByKeywordApi" =>
          /\ last.status = 400 <=> Blank(last.kw)
          /\ Blank(last.kw) => (~last.called /\ last.out.calls = <<>>)

\* a keyword of one space is refused on a table that holds a note with a
\* space in its title
C12_Witness ==
    /\ last.op = "SearchNotesByKeyword"
    /\ last.kw = <<" ">>
    /\ last.out.err = ErrEmptyKeyword
    /\ \E r \in Live(rows) : r.Title = <<" ">>

\* C15: the life of one note over HTTP.  POST /notes with a valid body (it
\* binds, title and content are not empty) on a storage that works is answered
\* 201 with an assigned identifier; GET /notes/{id} is then answered 200 with
\* the fields of the body; DELETE /notes/{id} is then answered 200; GET
\* /notes/{id} is then answered 404.
C15_Lifecycle ==
    ( /\ last.op = "CreateNoteApi"
      /\ last.called
      /\ last.arg.Title # <<>>
      /\ last.arg.Content # <<>>
      /\ last.failAt = "none" ) =>
        /\ last.status = 201
        /\ last.out.n.ID # 0
        /\ LET id == Itoa(last.out.n.ID)
               g == GetNoteByIDApi(rows, seq, id, "none")
               d == DeleteNoteApi(rows, seq, now, id, "none")
               h == GetNoteByIDApi(d.out.rows, d.out.seq, id, "none")
           IN  /\ g.status = 200
               /\ g.out.note.ID = last.out.n.ID
               /\ SameNoteFields(g.out.note, last.arg)
               /\ d.status = 200
               /\ h.status = 404

\* C16: DELETE /notes/:id is answered 200 when the use case succeeds, 400
\* when the id is not an integer, 404 when the use case reports NotFound and
\* 500 for every other error of the use case.
C16_DeleteStatus ==
    last.op = "DeleteNoteApi" =>
        /\ ~IsInteger(last.param) => (last.status = 400 /\ ~last.called)
        /\ IsInteger(last.param) =>
              /\ last.called
              /\ last.status =
                    IF last.out.err = Nil THEN 200
                    ELSE IF last.out.err = ErrNoteNotFound THEN 404
                    ELSE 500

Endpoints ==
    {"CreateNoteApi", "GetAllNotesApi", "GetPaginatedNotesApi", "GetNoteByIDApi",
     "UpdateNoteApi", "DeleteNoteApi", "SearchNotesByKeywordApi"}

\* C17: at every endpoint an error of the use case that belongs to the
\* taxonomy is answered with a client status, 404 for NotFound and 400 for
\* the others, and every other error of the use case is answered with 500.
C17_TaxonomyToStatus ==
    (last.op \in Endpoints /\ last.called /\ last.out.err # Nil) =>
        last.status =
            IF last.out.err = ErrNoteNotFound THEN 404
            ELSE IF last.out.err \in Taxonomy THEN 400
            ELSE 500

\* C18: GET /notes/:id is answered 200 with the note when the use case
\* succeeds, 400 when the id is not an integer, and 404 for every error of the
\* use case, NotFound or a storage failure alike.
C18_GetStatus ==
    last.op = "GetNoteByIDApi" =>
        /\ ~IsInteger(last.param) => (last.status = 400 /\ ~last.called)
        /\ IsInteger(last.param) =>
              /\ last.called
              /\ last.status = IF last.out.err = Nil THEN 200 ELSE 404
              /\ last.out.err = Nil =>
                    (last.out.note \in Live(rows) /\ last.out.note.ID = last.id)
              /\ last.failAt = "fetch" =>
                    (last.out.err = ErrRetrieveFailed /\ last.status = 404)

\* the storage fails while a note that is stored is asked for
C18_Witness ==
    /\ last.op = "GetNoteByIDApi"
    /\ last.param = <<"0", "2">>
    /\ HasLive(rows, 2)
    /\ last.out.err = ErrRetrieveFailed
    /\ last.status = 404

\* a filter whose date range is accepted
ValidRange(filter) ==
    ~(filter.FromDate # NilDate /\ filter.ToDate # NilDate
        /\ filter.FromDate > filter.ToDate)

\* no note that is not soft-deleted is in what the last call asked for
NothingMatches ==
    CASE last.op \in {"GetAllNotes", "GetAllNotesApi"} -> Live(rows) = {}
      [] last.op \in {"GetPaginatedNotes", "GetPaginatedNotesApi"} ->
            Cardinality(Live(rows)) <= last.offset
      [] last.op \in {"SearchNotesByKeyword", "SearchNotesByKeywordApi"} ->
            ~Blank(last.kw) /\ ~\E r \in Live(rows) : SubstringMatch(r, last.kw)
      [] last.op = "FilterNotes" ->
            ValidRange(last.filter) /\ ~\E r \in Live(rows) : Satisfies(r, last.filter)
      [] OTHER -> FALSE

\* C19: when no note that is not soft-deleted matches, GetAllNotes,
\* GetPaginatedNotes, SearchNotesByKeyword (keyword not blank) and FilterNotes
\* (valid range) return an empty sequence and no error, and the list endpoints
\* answer 200.
C19_EmptyIsNotAnError ==
    (NothingMatches /\ last.failAt = "none") =>
        /\ last.op \in {"GetAllNotes", "GetPaginatedNotes", "SearchNotesByKeyword",
                        "FilterNotes"} =>
              (last.out.err = Nil /\ last.out.notes = <<>>)
        /\ (last.op \in Endpoints /\ last.called) =>
              (last.status = 200 /\ last.out.err = Nil /\ last.out.notes = <<>>)

\* C21: the identifiers of all stored records, soft-deleted ones included,
\* are pairwise distinct at every moment, and no step changes the identifier
\* of a stored record: every record stays in the table under its identifier,
\* with its creation timestamp, so that no identifier is ever free to be used
\* again, after a delete or otherwise.
C21_IdentifiersStable ==
    /\ [](Cardinality(IDsOf(rows)) = Len(rows))
    /\ [][ /\ Len(rows') >= Len(rows)
           /\ \A i \in 1..Len(rows) :
                 \E j \in 1..Len(rows') :
                     /\ rows'[j].ID = rows[i].ID
                     /\ rows'[j].CreatedAt = rows[i].CreatedAt ]_vars

\* a note is created with the identifier of a soft-deleted one and is refused
C21_Witness ==
    /\ last.op = "CreateNote"
    /\ last.arg.ID # 0
    /\ \E i \in 1..Len(rows) : rows[i].ID = last.arg.ID /\ SoftDeleted(rows[i])
    /\ last.out.err = ErrCreateFailed
    /\ rows = last.pre

\* C22: a successful DeleteNote(id) only sets the soft-deletion marker of the
\* note with that identifier: the record stays in the table with identifier,
\* title, content, category, meeting date and creation timestamp unchanged,
\* and every other stored note is unchanged.
C22_DeleteFrame ==
    (last.op = "DeleteNote" /\ last.out.err = Nil) =>
        /\ HasLive(last.pre, last.id)
        /\ \E i \in 1..Len(rows) : rows[i].ID = last.id
        /\ SoftDeleted(Stored)
        /\ ~SoftDeleted(Before)
        /\ Stored.ID = Before.ID
        /\ SameNoteFields(Stored, Before)
        /\ Stored.CreatedAt = Before.CreatedAt
        /\ OthersUnchanged

\* a note is deleted next to one that was soft-deleted before
C22_Witness ==
    /\ last.op = "DeleteNote"
    /\ last.out.err = Nil
    /\ Len(rows) >= 2
    /\ \E i \in 1..Len(last.pre) : SoftDeleted(last.pre[i])

\* C25: a CreateNote or UpdateNote call that fails validation (EmptyTitle or
\* EmptyContent) makes no repository write: Create and Update are not called
\* and the table is as it was before the call.
C25_ValidationFailureWritesNothing ==
    ( /\ last.op \in {"CreateNote", "UpdateNote"}
      /\ last.out.err \in {ErrEmptyTitle, ErrEmptyContent} ) =>
        /\ \A i \in 1..Len(last.out.calls) : last.out.calls[i] \notin {"Create", "Update"}
        /\ rows = last.pre

\* a create with an empty content is refused on a table that holds notes
C25_Witness ==
    /\ last.op = "CreateNote"
    /\ last.arg.Title # <<>>
    /\ last.arg.Content = <<>>
    /\ last.out.err = ErrEmptyContent
    /\ Len(rows) >= 2

----------------------------------------------------------------------------
(* Pages, trimming of a filter, and the two keyword queries.               *)

NotSoftDeleted(r) == ~SoftDeleted(r)

\* the notes that are not soft-deleted, in the order of the table
LiveSeq(rs) == SelectSeq(rs, NotSoftDeleted)

\* the elements of s at the 0-based positions offset .. offset+limit-1
Slice(s, offset, limit) ==
    LET to == IF offset + limit < Len(s) THEN offset + limit ELSE Len(s)
    IN  IF offset + 1 > to THEN <<>> ELSE SubSeq(s, offset + 1, to)

\* meeting dates never rise along s
Descending(s) ==
    \A i \in 1..(Len(s) - 1) : s[i].MeetingDate >= s[i + 1].MeetingDate

\* C23: on a table whose notes have pairwise distinct meeting dates, for a
\* limit and an offset that are not negative, GetPaginatedNotes returns at
\* most limit notes, each a note of the table that is not soft-deleted and
\* none twice, in strictly descending order of meeting date.
C23_PageBoundedAndSorted ==
    ( /\ last.op = "GetPaginatedNotes"
      /\ last.out.err = Nil
      /\ last.limit >= 0
      /\ last.offset >= 0
      /\ DistinctDates(rows) ) =>
        /\ Len(last.out.notes) <= last.limit
        /\ Range(last.out.notes) \subseteq Live(rows)
        /\ \A i \in 1..(Len(last.out.notes) - 1) :
               last.out.notes[i].MeetingDate > last.out.notes[i + 1].MeetingDate

\* a full page of two notes that the table holds in ascending order
C23_Witness ==
    /\ last.op = "GetPaginatedNotes"
    /\ last.out.err = Nil
    /\ DistinctDates(rows)
    /\ last.limit = 2
    /\ Len(LiveSeq(rows)) = 3
    /\ Len(last.out.notes) = 2
    /\ last.out.notes # last.out.repoNotes

\* the members of a page are the notes at the positions offset ..
\* offset+limit-1 of the table's own order, and the page is these in
\* descending order of meeting date
WindowThenSort ==
    (last.op = "GetPaginatedNotes" /\ last.out.err = Nil) =>
        LET window == Slice(LiveSeq(rows), last.offset, last.limit)
        IN  /\ Len(last.out.notes) = Len(window)
            /\ Range(last.out.notes) = Range(window)
            /\ Descending(last.out.notes)

\* the page of (limit, offset) is the slice [offset, offset+limit) of GetAllNotes
PageIsSlice(limit, offset) ==
    GetPaginatedNotes(rows, seq, limit, offset, ZeroIsNoLimit, "none").notes
        = Slice(GetAllNotes(rows, seq, "none").notes, offset, limit)

\* C27, as stated: a page holds the window of the table's own order, sorted;
\* and a page equals the slice of GetAllNotes only when the table's own order
\* is descending by meeting date.
C27_AsStated ==
    /\ WindowThenSort
    /\ (last.op = "GetPaginatedNotes" /\ last.out.err = Nil) =>
           (PageIsSlice(last.limit, last.offset) => Descending(LiveSeq(rows)))

\* C27, amended: a page holds the window of the table's own order, sorted;
\* a page equals the slice of GetAllNotes whenever the table's own order is
\* descending by meeting date, and the pages of every limit and offset equal
\* the slices only when it is.
C27_WindowThenSort ==
    /\ WindowThenSort
    /\ (last.op = "GetPaginatedNotes" /\ last.out.err = Nil) =>
           /\ Descending(LiveSeq(rows)) => PageIsSlice(last.limit, last.offset)
           /\ (\A limit \in 0..Len(rows), offset \in 0..Len(rows) :
                   PageIsSlice(limit, offset)) => Descending(LiveSeq(rows))

\* a page of the table's ascending order that is not the slice of GetAllNotes
C27_Witness ==
    /\ last.op = "GetPaginatedNotes"
    /\ last.out.err = Nil
    /\ Len(last.out.notes) = 2
    /\ last.out.notes # last.out.repoNotes
    /\ ~Descending(LiveSeq(rows))
    /\ ~PageIsSlice(last.limit, last.offset)

\* s with white space added in front, behind, on both sides, or not at all
Padded(s) ==
    {s, <<" ">> \o s, s \o <<" ">>, <<" ">> \o s \o <<" ">>}

\* what FilterNotes answers for the filter on the table as it is
Answer(filter) ==
    LET o == FilterNotes(rows, seq, filter, "none")
    IN  [err |-> o.err, notes |-> o.notes]

\* C26: FilterNotes answers a filter and the same filter with white space
\* added in front of or behind its keyword or its category alike, and a
\* keyword or category of white space only as it answers the filter without
\* that field.
C26_FilterTrims ==
    (last.op = "FilterNotes" /\ last.failAt = "none") =>
        LET mine == [err |-> last.out.err, notes |-> last.out.notes]
        IN  /\ \A k \in Padded(last.filter.Keyword), c \in Padded(last.filter.Category) :
                   Answer([last.filter EXCEPT !.Keyword = k, !.Category = c]) = mine
            /\ Blank(last.filter.Keyword) =>
                   Answer([last.filter EXCEPT !.Keyword = <<>>]) = mine
            /\ Blank(last.filter.Category) =>
                   Answer([last.filter EXCEPT !.Category = <<>>]) = mine

\* a filter with a padded category and a padded keyword finds a note
C26_Witness ==
    /\ last.op = "FilterNotes"
    /\ last.failAt = "none"
    /\ last.filter.Category = <<" ", "x">>
    /\ last.filter.Keyword = <<" ", "B", " ">>
    /\ last.out.err = Nil
    /\ last.out.notes # <<>>

\* s without its leading and trailing white space
Strip(s) ==
    IF Blank(s) THEN <<>>
    ELSE LET first == CHOOSE i \in 1..Len(s) :
                          s[i] # " " /\ \A j \in 1..(i - 1) : s[j] = " "
             final == CHOOSE i \in 1..Len(s) :
                          s[i] # " " /\ \A j \in (i + 1)..Len(s) : s[j] = " "
         IN  SubSeq(s, first, final)

\* C30: for the keyword k of a search, FilterNotes of the filter that holds
\* only k and SearchNotesByKeyword(k) return the same notes when k is not
\* empty and has no white space at either end; for a blank k the search is
\* rejected with EmptyKeyword and the filter returns every note that is not
\* soft-deleted; for a padded k the filter answers as the search of the
\* trimmed k does, and the search looks for k as it is.
C30_FilterAgreesWithSearch ==
    (last.op = "SearchNotesByKeyword" /\ last.failAt = "none") =>
        LET k == last.kw
            filtered == Answer([EmptyFilter EXCEPT !.Keyword = k])
            trimmed == SearchNotesByKeyword(rows, seq, Strip(k), "none")
        IN  /\ filtered.err = Nil
            /\ (k # <<>> /\ Strip(k) = k) =>
                   /\ last.out.err = Nil
                   /\ last.out.notes = filtered.notes
            /\ Blank(k) =>
                   /\ last.out.err = ErrEmptyKeyword
                   /\ Range(filtered.notes) = Live(rows)
            /\ (~Blank(k) /\ Strip(k) # k) =>
                   /\ last.out.err = Nil
                   /\ trimmed.err = Nil
                   /\ filtered.notes = trimmed.notes
                   /\ Range(last.out.notes) =
                          {r \in Live(rows) :
                              \/ Contains(ToLower(r.Title), ToLower(k))
                              \/ Contains(ToLower(r.Content), ToLower(k))}

\* a search for a plain keyword finds two notes by their content
C30_Witness ==
    /\ last.op = "SearchNotesByKeyword"
    /\ last.failAt = "none"
    /\ last.kw = <<"c">>
    /\ last.out.err = Nil
    /\ Len(last.out.notes) = 2
    /\ Len(LiveSeq(rows)) = 3

\* a padded keyword: the search finds nothing, the filter finds a note
C30_WitnessPadded ==
    /\ last.op = "SearchNotesByKeyword"
    /\ last.kw = <<" ", "B", " ">>
    /\ last.out.err = Nil
    /\ last.out.notes = <<>>
    /\ Answer([EmptyFilter EXCEPT !.Keyword = last.kw]).notes # <<>>
----------------------------------------------------------------------------
(* Two requests on one note.                                               *)

\* the two requests are for the same note, which the table held, not
\* soft-deleted, when they arrived
SameExistingNote ==
    /\ reqs[1].id = reqs[2].id
    /\ HasLive(reqs[1].pre, reqs[1].id)

\* no statement of either request has met a storage failure
NoFault == \A i \in 1..2 : ~reqs[i].fault

\* request i has written, and no request has written after it
LastWriter(i) ==
    /\ reqs[i].wrote # 0
    /\ \A j \in 1..2 : reqs[j].wrote <= reqs[i].wrote

\* C24: of two UpdateNote requests with valid notes for the same existing
\* note, interleaved in any order of their reads and writes and with no
\* storage failure, each one that has ended has succeeded, and from the first
\* write on the stored title, content, category and meeting date are all those
\* of the request that wrote last; before any write the table is as it was.
C24_LastWriterWins ==
    ( /\ \A i \in 1..2 : /\ reqs[i].op = "UpdateNote"
                         /\ reqs[i].arg.Title # <<>>
                         /\ reqs[i].arg.Content # <<>>
      /\ SameExistingNote
      /\ NoFault ) =>
        /\ \A i \in 1..2 : reqs[i].pc = "done" => reqs[i].err = Nil
        /\ \A i \in 1..2 : reqs[i].pc = "write" => reqs[i].err = Nil
        /\ \A i \in 1..2 :
               LastWriter(i) =>
                   /\ HasLive(rows, reqs[i].id)
                   /\ SameNoteFields(RowOf(rows, reqs[i].id), reqs[i].arg)
        /\ (\A i \in 1..2 : reqs[i].wrote = 0) => rows = reqs[1].pre

\* both updates have ended; they differ in every replaceable attribute, and
\* the one that wrote last had read the note before the other one wrote
C24_Witness ==
    /\ \A i \in 1..2 : reqs[i].op = "UpdateNote" /\ reqs[i].pc = "done" /\ reqs[i].err = Nil
    /\ SameExistingNote
    /\ reqs[1].arg.Title # reqs[2].arg.Title
    /\ reqs[1].arg.Content # reqs[2].arg.Content
    /\ reqs[1].arg.Category # reqs[2].arg.Category
    /\ reqs[1].arg.MeetingDate # reqs[2].arg.MeetingDate
    /\ reqs[1].wrote > reqs[2].wrote
    /\ reqs[2].wrote # 0
    /\ reqs[1].existingNote.UpdatedAt = RowOf(reqs[1].pre, reqs[1].id).UpdatedAt
    /\ SameNoteFields(RowOf(rows, reqs[1].id), reqs[1].arg)

\* C28: when a DeleteNote and an UpdateNote for the same existing note run
\* at once, in any order of their reads and writes, then from the moment
\* DeleteNote has returned success no read sees the note any more.
C28_DeleteStays ==
    \A d, u \in 1..2 :
        ( /\ reqs[d].op = "DeleteNote"
          /\ reqs[u].op = "UpdateNote"
          /\ SameExistingNote
          /\ reqs[d].pc = "done"
          /\ reqs[d].err = Nil ) =>
            ~HasLive(rows, reqs[d].id)

\* C29: of two DeleteNote requests for the same existing note that run at
\* once with no storage failure, in any order of their reads and writes,
\* exactly one returns success and the other one fails with NotFound.
C29_ExactlyOneDeletes ==
    ( /\ \A i \in 1..2 : reqs[i].op = "DeleteNote" /\ reqs[i].pc = "done"
      /\ SameExistingNote
      /\ NoFault ) =>
        \E i, j \in 1..2 :
            /\ i # j
            /\ reqs[i].err = Nil
            /\ reqs[j].err = ErrNoteNotFound
====
